---- MODULE Spec2Model ----
(***************************************************************************)
(* Model of the three fee-acceleration demos of accelerate-tx-flavors:     *)
(* rbf::run_demo, cpfp::run_demo and p2a::run_demo, selected by main.      *)
(*                                                                         *)
(* Amounts are whole satoshis.  The source computes in f64 BTC and turns   *)
(* the result back into an Amount with Amount::from_btc, which fails for a *)
(* negative value and for a value whose shortest decimal form has more     *)
(* than 8 decimals; an f64 is modelled as [sat, exact], see F64Sub.        *)
(* A 32-bit sequence number is modelled as its two 16-bit halves           *)
(* <<high, low>>, since 0xffffffff does not fit TLC's 32-bit integers.    *)
(***************************************************************************)
EXTENDS Integers, Sequences, FiniteSets, TLC

VARIABLES
    pc,            \* position of the running demo
    choice,        \* the menu line read by main
    unspent,       \* result of rpc.list_unspent, a sequence of outputs
    drafts,        \* the transactions built so far, in build order
    signed,        \* roles of the drafts the wallet has signed
    broadcast,     \* txids returned by rpc.send_raw_transaction, in order
    final_mempool, \* the mempool snapshot read after the second broadcast
    block,         \* txids of the transactions of the mined block
    verdict,       \* what the demo printed about mempool and block
    result,        \* "running", or the Result main returns: "Ok" / "Err"
    error          \* the failed step, when result = "Err"

vars == <<pc, choice, unspent, drafts, signed, broadcast, final_mempool,
          block, verdict, result, error>>

----------------------------------------------------------------------------
(* Bounds of the model and the inputs it draws. *)

\* longest list rpc.list_unspent returns
MaxUnspent == 2

\* output indexes of the wallet's outputs
Vouts == {0, 1}

\* values of the wallet's outputs, in satoshis: below and at each fee, around
\* the 1 BTC admission check, and values whose f64 difference is inexact
Amounts == {10000, 100000, 200000, 1000000, 1100000,
            99999999, 100000000, 100000001, 230000000}

\* the wallet's i-th output comes from its own funding transaction
FundTxid(i) == <<"fund", i>>

UtxosAt(i) == [txid : {FundTxid(i)}, vout : Vouts, amount : Amounts]

\* the lists rpc.list_unspent may return: distinct outputs, any values
UnspentLists ==
    UNION { { l \in [1..n -> UNION {UtxosAt(i) : i \in 1..n}] :
                \A i \in 1..n : l[i].txid = FundTxid(i) }
            : n \in 0..MaxUnspent }

----------------------------------------------------------------------------
(* Amount arithmetic: f64 BTC values and bitcoin::Amount. *)

\* satoshis per BTC: the scale of Amount::to_btc and Amount::from_btc, and
\* the 1.0 BTC of the admission checks
COIN == 100000000

\* utxo.amount.to_btc(): the f64 nearest to the decimal value
to_btc(amount) == [sat |-> amount, exact |-> TRUE]

\* an f64 literal such as 0.0001, given in satoshis
F64(sat) == [sat |-> sat, exact |-> TRUE]

\* The pairs <<a, b>> of the model's amounts and fees (satoshis) for which the
\* IEEE-754 double difference a/1e8 - b/1e8 is not the double nearest to the
\* decimal difference, e.g. 1.00000001 - 0.001 = 0.9990000099999999 and
\* 2.3 - 0.0001 = 2.2998999999999996.
InexactSub == { <<1000000, 100000>>, <<1100000, 100000>>,
                <<100000001, 100000>>, <<230000000, 10000>> }

\* x - y on f64
F64Sub(x, y) ==
    [sat   |-> x.sat - y.sat,
     exact |-> x.exact /\ y.exact /\ <<x.sat, y.sat>> \notin InexactSub]

\* (x * 100_000_000.0).round() / 100_000_000.0: the f64 nearest to a whole
\* number of satoshis
Round8(x) == [sat |-> x.sat, exact |-> TRUE]

\* Amount::from_btc(x): Err for a negative value and for a value that prints
\* with more than 8 decimals, else the amount in satoshis
from_btc(x) ==
    IF x.sat < 0 \/ ~x.exact
    THEN [ok |-> FALSE, sat |-> 0]
    ELSE [ok |-> TRUE, sat |-> x.sat]

----------------------------------------------------------------------------
(* Transactions. *)

\* a u32 written as its 16-bit halves: Hex32(65535, 65533) is 0xfffffffd
Hex32(high, low) == <<high, low>>

\* address.script_pubkey(), and the script the node derives from an address
script_pubkey(addr) == <<"script_pubkey", addr>>

\* CreateRawTransactionInput { txid, vout, sequence }
RawInput(txid, vout, sequence) ==
    [txid |-> txid, vout |-> vout, sequence |-> sequence]

\* the default transaction version of the node's createrawtransaction
RpcTxVersion == 2

\* rpc.create_raw_transaction(inputs, outputs, None, _): one output per
\* entry of the address -> amount map, lock time 0
create_raw_transaction(role, inputs, outputs) ==
    [role |-> role, version |-> RpcTxVersion, lock_time |-> 0,
     input |-> inputs, output |-> outputs]

\* the txid of a transaction: a hash of its content
Txid(tx) == <<"tx", tx.version, tx.input, tx.output>>

Range(s) == { s[i] : i \in DOMAIN s }

NoError == [kind |-> "none", at |-> "none"]

\* a mutant of Fail: the error is logged and the step is tried again
Fail_Retry(kind) ==
    /\ result' = result
    /\ error' = [kind |-> kind, at |-> pc]
    /\ pc' = pc

\* a `?` that returns the error to main: the run ends with Err
Fail(kind) ==
    /\ result' = "Err"
    /\ error' = [kind |-> kind, at |-> pc]
    /\ pc' = "done"

Running(at) == pc = at /\ result = "running"

----------------------------------------------------------------------------
(* main *)

Choices == {"1", "2", "3", "other"}

TypeOK ==
    /\ pc \in {"main", "setup", "list_unspent", "build1", "sign1", "send1",
               "mempool1", "build2", "sign2", "send2", "final_mempool",
               "mine", "done"}
    /\ choice \in Choices \cup {"unread"}
    /\ unspent \in UnspentLists
    /\ Len(drafts) \in 0..2
    /\ signed \subseteq {"original", "replacement", "parent", "child",
                         "main", "anchor_spend"}
    /\ Len(broadcast) \in 0..2
    /\ result \in {"running", "Ok", "Err"}

Init ==
    /\ pc = "main"
    /\ choice = "unread"
    /\ unspent = <<>>
    /\ drafts = <<>>
    /\ signed = {}
    /\ broadcast = <<>>
    /\ final_mempool = {}
    /\ block = {}
    /\ verdict = [mempool |-> "none", block |-> "none"]
    /\ result = "running"
    /\ error = NoError

\* main: read the menu choice and start the chosen demo
Main ==
    /\ Running("main")
    /\ \E c \in Choices, ok \in BOOLEAN :
         IF ~ok
         THEN /\ Fail("IoError")
              /\ UNCHANGED <<choice, unspent, drafts, signed, broadcast,
                             final_mempool, block, verdict>>
         ELSE /\ choice' = c
              /\ IF c = "other"
                 THEN pc' = "done" /\ result' = "Ok"
                 ELSE pc' = "setup" /\ result' = result
              /\ UNCHANGED <<unspent, drafts, signed, broadcast,
                             final_mempool, block, verdict, error>>

\* the head of every demo: connect, load or create the wallet, get the
\* addresses, fund the wallet when the balance is low
Setup ==
    /\ Running("setup")
    /\ \E ok \in BOOLEAN :
         IF ok
         THEN /\ pc' = "list_unspent"
              /\ UNCHANGED <<result, error>>
         ELSE Fail("RpcError")
    /\ UNCHANGED <<choice, unspent, drafts, signed, broadcast,
                   final_mempool, block, verdict>>

----------------------------------------------------------------------------
(* Steps the three demos share. *)

\* the drafts, broadcasts and observations a step leaves alone
Ledger == <<drafts, signed, broadcast, final_mempool, block, verdict>>

Draft(role) == CHOOSE d \in Range(drafts) : d.role = role

Built(role) == \E d \in Range(drafts) : d.role = role

\* rpc.sign_raw_transaction_with_wallet(tx)?
Sign(at, role, next) ==
    /\ Running(at)
    /\ \E ok \in BOOLEAN :
         IF ok
         THEN /\ signed' = signed \cup {role}
              /\ pc' = next
              /\ UNCHANGED <<result, error>>
         ELSE /\ Fail("RpcError")
              /\ UNCHANGED signed
    /\ UNCHANGED <<choice, unspent, drafts, broadcast, final_mempool, block,
                   verdict>>

\* a mutant of Send: a rejected transaction is not reported, the run goes on
\* without its txid
Send_IgnoreError(at, role, next) ==
    /\ Running(at)
    /\ role \in signed
    /\ \E ok \in BOOLEAN :
         /\ broadcast' = IF ok THEN Append(broadcast, Txid(Draft(role)))
                               ELSE broadcast
         /\ pc' = next
         /\ UNCHANGED <<result, error>>
    /\ UNCHANGED <<choice, unspent, drafts, signed, final_mempool, block,
                   verdict>>

\* rpc.send_raw_transaction(signed.hex)?: the node accepts the transaction
\* and returns its txid, or rejects it
Send(at, role, next) ==
    /\ Running(at)
    /\ role \in signed
    /\ \E ok \in BOOLEAN :
         IF ok
         THEN /\ broadcast' = Append(broadcast, Txid(Draft(role)))
              /\ pc' = next
              /\ UNCHANGED <<result, error>>
         ELSE /\ Fail("RpcError")
              /\ UNCHANGED broadcast
    /\ UNCHANGED <<choice, unspent, drafts, signed, final_mempool, block,
                   verdict>>

\* a mutant of Mempool1: success is printed as soon as the first transaction
\* is in the mempool
Mempool1_ReportsSuccess(at, next) ==
    /\ Running(at)
    /\ \E ok \in BOOLEAN :
         IF ok
         THEN /\ pc' = next
              /\ verdict' = [verdict EXCEPT !.mempool =
                    IF choice = "1" THEN "RBF SUCCESS"
                    ELSE IF choice = "2" THEN "CPFP SUCCESS" ELSE "P2A SUCCESS"]
              /\ UNCHANGED <<result, error>>
         ELSE /\ \E kind \in {"RpcError", "IoError"} : Fail(kind)
              /\ UNCHANGED verdict
    /\ UNCHANGED <<choice, unspent, drafts, signed, broadcast, final_mempool,
                   block>>

\* rpc.get_raw_mempool()? after the first broadcast, then the pause on stdin
Mempool1(at, next) ==
    /\ Running(at)
    /\ \E ok \in BOOLEAN :
         IF ok
         THEN pc' = next /\ UNCHANGED <<result, error>>
         ELSE \E kind \in {"RpcError", "IoError"} : Fail(kind)
    /\ UNCHANGED <<choice, unspent, Ledger>>

----------------------------------------------------------------------------
(* rbf::run_demo *)

\* let fee1 = 0.0001
fee1 == 10000
\* let fee2 = 0.001
fee2 == 100000

\* sequence: Some(0xfffffffd)
RbfSequence == Hex32(65535, 65533)

\* a mutant of NeedLargerUtxos: the value of the first output is not checked
NeedLargerUtxos_EmptyOnly(l) == l = <<>>

\* if unspent.is_empty() || unspent[0].amount.to_btc() < 1.0
NeedLargerUtxos(l) == l = <<>> \/ to_btc(l[1].amount).sat < COIN

\* list_unspent and the admission check: an empty list or a first output
\* below 1 BTC ends the run with Ok(()) after mining more blocks
RbfListUnspent ==
    /\ Running("list_unspent")
    /\ choice = "1"
    /\ \E ok \in BOOLEAN, l \in UnspentLists :
         IF ~ok
         THEN Fail("RpcError") /\ UNCHANGED unspent
         ELSE /\ unspent' = l
              /\ IF NeedLargerUtxos(l)
                 THEN \E mined \in BOOLEAN :
                        IF mined
                        THEN pc' = "done" /\ result' = "Ok" /\ error' = error
                        ELSE Fail("RpcError")
                 ELSE pc' = "build1" /\ UNCHANGED <<result, error>>
    /\ UNCHANGED <<choice, Ledger>>

\* a mutant of RbfSendAmount: the fee is not taken off
RbfSendAmount_NoFee(utxo, fee) == to_btc(utxo.amount)

\* let send_amount1 = utxo_amount - fee1 (and likewise send_amount2)
RbfSendAmount(utxo, fee) == F64Sub(to_btc(utxo.amount), F64(fee))

\* a mutant of RbfInputs: the input keeps the final sequence 0xffffffff
RbfInputs_Final(utxo) == <<RawInput(utxo.txid, utxo.vout, Hex32(65535, 65535))>>

\* let inputs = vec![CreateRawTransactionInput { utxo.txid, utxo.vout, 0xfffffffd }]
RbfInputs(utxo) == <<RawInput(utxo.txid, utxo.vout, RbfSequence)>>

\* outputs.insert(target_addr, Amount::from_btc(send_amount)?), then
\* create_raw_transaction(&inputs, &outputs, None, Some(true))?
RbfBuild(at, role, fee, next) ==
    /\ Running(at)
    /\ choice = "1"
    /\ LET utxo   == unspent[1]
           amount == from_btc(RbfSendAmount(utxo, fee))
           outputs == <<[value |-> amount.sat,
                         script |-> script_pubkey("target_addr")]>>
       IN  IF ~amount.ok
           THEN Fail("ParseAmountError") /\ UNCHANGED drafts
           ELSE \E ok \in BOOLEAN :
                  IF ok
                  THEN /\ drafts' = Append(drafts,
                              create_raw_transaction(role, RbfInputs(utxo), outputs))
                       /\ pc' = next
                       /\ UNCHANGED <<result, error>>
                  ELSE Fail("RpcError") /\ UNCHANGED drafts
    /\ UNCHANGED <<choice, unspent, signed, broadcast, final_mempool, block,
                   verdict>>

RbfBuildOriginal == RbfBuild("build1", "original", fee1, "sign1")

RbfSignOriginal == choice = "1" /\ Sign("sign1", "original", "send1")

RbfSendOriginal == choice = "1" /\ Send("send1", "original", "mempool1")

RbfMempool1 == choice = "1" /\ Mempool1("mempool1", "build2")

RbfBuildReplacement == RbfBuild("build2", "replacement", fee2, "sign2")

RbfSignReplacement == choice = "1" /\ Sign("sign2", "replacement", "send2")

RbfSendReplacement == choice = "1" /\ Send("send2", "replacement", "final_mempool")

\* a mutant of RbfReplaced: the original is not looked for
RbfReplaced_AnyReplacement(mempool, original_txid, replacement_txid) ==
    replacement_txid \in mempool

\* if !final_mempool.contains(&original_txid) && final_mempool.contains(&replacement_txid)
RbfReplaced(mempool, original_txid, replacement_txid) ==
    original_txid \notin mempool /\ replacement_txid \in mempool

\* the mempool after the replacement: any part of what was broadcast
RbfFinalMempool ==
    /\ Running("final_mempool")
    /\ choice = "1"
    /\ \E ok \in BOOLEAN, m \in SUBSET Range(broadcast) :
         IF ~ok
         THEN Fail("RpcError") /\ UNCHANGED <<final_mempool, verdict>>
         ELSE LET original_txid    == broadcast[1]
                  replacement_txid == broadcast[2]
              IN  /\ final_mempool' = m
                  /\ verdict' = [verdict EXCEPT !.mempool =
                        IF RbfReplaced(m, original_txid, replacement_txid)
                        THEN "RBF SUCCESS"
                        ELSE "RBF may not have worked"]
                  /\ pc' = "mine"
                  /\ UNCHANGED <<result, error>>
    /\ UNCHANGED <<choice, unspent, drafts, signed, broadcast, block>>

\* mine one block and report which of the two transactions it holds
RbfMine ==
    /\ Running("mine")
    /\ choice = "1"
    /\ \E ok \in BOOLEAN, b \in SUBSET Range(broadcast) :
         IF ~ok
         THEN /\ \E kind \in {"RpcError", "IoError"} : Fail(kind)
              /\ UNCHANGED <<block, verdict>>
         ELSE LET orig_confirmed        == broadcast[1] \in b
                  replacement_confirmed == broadcast[2] \in b
              IN  /\ block' = b
                  /\ verdict' = [verdict EXCEPT !.block =
                        IF replacement_confirmed /\ ~orig_confirmed
                        THEN "PERFECT"
                        ELSE IF orig_confirmed /\ ~replacement_confirmed
                             THEN "Original was mined instead"
                             ELSE "Unexpected result"]
                  /\ pc' = "done"
                  /\ result' = "Ok"
                  /\ error' = error
    /\ UNCHANGED <<choice, unspent, drafts, signed, broadcast, final_mempool>>

----------------------------------------------------------------------------
(* cpfp::run_demo *)

\* let parent_fee = 0.0001
parent_fee == 10000
\* let child_fee = 0.01
child_fee == 1000000

\* sequence: Some(0xffffffff), the parent's input
CpfpParentSequence == Hex32(65535, 65535)
\* sequence: Some(0xfffffffe), the child's input
CpfpChildSequence == Hex32(65535, 65534)

\* list_unspent and the admission check, as in rbf
CpfpListUnspent ==
    /\ Running("list_unspent")
    /\ choice = "2"
    /\ \E ok \in BOOLEAN, l \in UnspentLists :
         IF ~ok
         THEN Fail("RpcError") /\ UNCHANGED unspent
         ELSE /\ unspent' = l
              /\ IF NeedLargerUtxos(l)
                 THEN \E mined \in BOOLEAN :
                        IF mined
                        THEN pc' = "done" /\ result' = "Ok" /\ error' = error
                        ELSE Fail("RpcError")
                 ELSE pc' = "build1" /\ UNCHANGED <<result, error>>
    /\ UNCHANGED <<choice, Ledger>>

\* let parent_send_amount = utxo_amount - parent_fee
parent_send_amount(utxo) == F64Sub(to_btc(utxo.amount), F64(parent_fee))

\* a mutant of child_send_amount: the child fee is taken off the value of the
\* selected output, not off the parent's output
child_send_amount_FromUtxo(utxo) ==
    Round8(F64Sub(to_btc(utxo.amount), F64(child_fee)))

\* let child_send_amount = ((parent_send_amount - child_fee) * 1e8).round() / 1e8
child_send_amount(utxo) == Round8(F64Sub(parent_send_amount(utxo), F64(child_fee)))

\* let parent_inputs = vec![CreateRawTransactionInput { utxo.txid, utxo.vout, 0xffffffff }]
parent_inputs(utxo) == <<RawInput(utxo.txid, utxo.vout, CpfpParentSequence)>>

\* a mutant of child_inputs: the child spends output 1 of the parent
child_inputs_Vout1(parent_txid) == <<RawInput(parent_txid, 1, CpfpChildSequence)>>

\* let child_inputs = vec![CreateRawTransactionInput { parent_txid, 0, 0xfffffffe }]
child_inputs(parent_txid) == <<RawInput(parent_txid, 0, CpfpChildSequence)>>

\* parent_outputs.insert(intermediate_addr, Amount::from_btc(parent_send_amount)?),
\* then create_raw_transaction(&parent_inputs, &parent_outputs, None, Some(false))?
CpfpBuildParent ==
    /\ Running("build1")
    /\ choice = "2"
    /\ LET utxo    == unspent[1]
           amount  == from_btc(parent_send_amount(utxo))
           outputs == <<[value |-> amount.sat,
                         script |-> script_pubkey("intermediate_addr")]>>
       IN  IF ~amount.ok
           THEN Fail("ParseAmountError") /\ UNCHANGED drafts
           ELSE \E ok \in BOOLEAN :
                  IF ok
                  THEN /\ drafts' = Append(drafts,
                              create_raw_transaction("parent", parent_inputs(utxo), outputs))
                       /\ pc' = "sign1"
                       /\ UNCHANGED <<result, error>>
                  ELSE Fail("RpcError") /\ UNCHANGED drafts
    /\ UNCHANGED <<choice, unspent, signed, broadcast, final_mempool, block,
                   verdict>>

CpfpSignParent == choice = "2" /\ Sign("sign1", "parent", "send1")

CpfpSendParent == choice = "2" /\ Send("send1", "parent", "mempool1")

CpfpMempool1 == choice = "2" /\ Mempool1("mempool1", "build2")

\* child_outputs.insert(final_addr, Amount::from_btc(child_send_amount)?),
\* then create_raw_transaction(&child_inputs, &child_outputs, None, None)?
CpfpBuildChild ==
    /\ Running("build2")
    /\ choice = "2"
    /\ LET utxo        == unspent[1]
           parent_txid == broadcast[1]
           amount      == from_btc(child_send_amount(utxo))
           outputs     == <<[value |-> amount.sat,
                             script |-> script_pubkey("final_addr")]>>
       IN  IF ~amount.ok
           THEN Fail("ParseAmountError") /\ UNCHANGED drafts
           ELSE \E ok \in BOOLEAN :
                  IF ok
                  THEN /\ drafts' = Append(drafts,
                              create_raw_transaction("child", child_inputs(parent_txid),
                                                     outputs))
                       /\ pc' = "sign2"
                       /\ UNCHANGED <<result, error>>
                  ELSE Fail("RpcError") /\ UNCHANGED drafts
    /\ UNCHANGED <<choice, unspent, signed, broadcast, final_mempool, block,
                   verdict>>

CpfpSignChild == choice = "2" /\ Sign("sign2", "child", "send2")

CpfpSendChild == choice = "2" /\ Send("send2", "child", "final_mempool")

\* the mempool after the child: success is printed when it holds both
CpfpFinalMempool ==
    /\ Running("final_mempool")
    /\ choice = "2"
    /\ \E ok \in BOOLEAN, m \in SUBSET Range(broadcast) :
         IF ~ok
         THEN Fail("RpcError") /\ UNCHANGED <<final_mempool, verdict>>
         ELSE LET parent_txid == broadcast[1]
                  child_txid  == broadcast[2]
              IN  /\ final_mempool' = m
                  /\ verdict' = [verdict EXCEPT !.mempool =
                        IF parent_txid \in m /\ child_txid \in m
                        THEN "CPFP SUCCESS"
                        ELSE "nothing printed"]
                  /\ pc' = "mine"
                  /\ UNCHANGED <<result, error>>
    /\ UNCHANGED <<choice, unspent, drafts, signed, broadcast, block>>

\* mine one block and report which of parent and child it holds
CpfpMine ==
    /\ Running("mine")
    /\ choice = "2"
    /\ \E ok \in BOOLEAN, b \in SUBSET Range(broadcast) :
         IF ~ok
         THEN /\ \E kind \in {"RpcError", "IoError"} : Fail(kind)
              /\ UNCHANGED <<block, verdict>>
         ELSE LET parent_confirmed == broadcast[1] \in b
                  child_confirmed  == broadcast[2] \in b
              IN  /\ block' = b
                  /\ verdict' = [verdict EXCEPT !.block =
                        IF parent_confirmed /\ child_confirmed
                        THEN "PERFECT"
                        ELSE IF child_confirmed /\ ~parent_confirmed
                             THEN "Only child was mined"
                             ELSE "Neither transaction was mined"]
                  /\ pc' = "done"
                  /\ result' = "Ok"
                  /\ error' = error
    /\ UNCHANGED <<choice, unspent, drafts, signed, broadcast, final_mempool>>

----------------------------------------------------------------------------
(* p2a::run_demo *)

\* bitcoin::opcodes::all::OP_PUSHNUM_1, the byte 0x51
OP_PUSHNUM_1 == 81

\* the two bytes pushed after it: &[0x4e, 0x73]
AnchorTag == <<78, 115>>

\* Builder::push_opcode: the opcode's byte
push_opcode(script, opcode) == Append(script, opcode)

\* a mutant of push_slice: the length byte is left out
push_slice_NoLength(script, bytes) == script \o bytes

\* Builder::push_slice for a slice of 2..75 bytes: its length, then the bytes
push_slice(script, bytes) == script \o <<Len(bytes)>> \o bytes

\* Builder::new().push_opcode(OP_PUSHNUM_1).push_slice(push_bytes).into_script()
p2a_script == push_slice(push_opcode(<<>>, OP_PUSHNUM_1), AnchorTag)

\* let fee_amount = 0.001
fee_amount == 100000
\* the second 0.001 taken off send_amount: room for the change output
change_room == 100000
\* let high_fee = 0.01
high_fee == 1000000
\* if fee_change > 0.001
dust_floor == 100000
\* value: Amount::from_sat(0) of the anchor output
anchor_value == 0
\* bitcoin::transaction::Version(3)
AnchorTxVersion == 3

\* Sequence(0xffffffff), the main transaction's input
P2aMainSequence == Hex32(65535, 65535)
\* Sequence(0xfffffffe), both inputs of the anchor spend
P2aSpendSequence == Hex32(65535, 65534)

\* list_unspent: only an empty list ends the run
P2aListUnspent ==
    /\ Running("list_unspent")
    /\ choice = "3"
    /\ \E ok \in BOOLEAN, l \in UnspentLists :
         IF ~ok
         THEN Fail("RpcError") /\ UNCHANGED unspent
         ELSE /\ unspent' = l
              /\ IF l = <<>>
                 THEN \E mined \in BOOLEAN :
                        IF mined
                        THEN pc' = "done" /\ result' = "Ok" /\ error' = error
                        ELSE Fail("RpcError")
                 ELSE pc' = "build1" /\ UNCHANGED <<result, error>>
    /\ UNCHANGED <<choice, Ledger>>

\* a mutant of send_amount: no room is left for the change output
send_amount_NoRoom(utxo) ==
    Round8(F64Sub(to_btc(utxo.amount), F64(fee_amount)))

\* let send_amount = ((utxo_amount - fee_amount - 0.001) * 1e8).round() / 1e8
send_amount(utxo) ==
    Round8(F64Sub(F64Sub(to_btc(utxo.amount), F64(fee_amount)), F64(change_room)))

\* let change_amount = ((utxo_amount - send_amount - fee_amount) * 1e8).round() / 1e8
change_amount(utxo) ==
    Round8(F64Sub(F64Sub(to_btc(utxo.amount), send_amount(utxo)), F64(fee_amount)))

\* tx_outputs_vec: the payment, the change when change_amount > 0.0, then
\* the anchor output
tx_outputs_vec(utxo) ==
    <<[value |-> from_btc(send_amount(utxo)).sat,
       script |-> script_pubkey("target_addr")]>>
    \o (IF change_amount(utxo).sat > 0
        THEN <<[value |-> from_btc(change_amount(utxo)).sat,
                script |-> script_pubkey("funding_addr")]>>
        ELSE <<>>)
    \o <<[value |-> anchor_value, script |-> p2a_script]>>

\* let tx = Transaction { version: Version(3), lock_time: ZERO,
\*                        input: vec![tx_input], output: tx_outputs_vec }
MainTx(utxo) ==
    [role |-> "main", version |-> AnchorTxVersion, lock_time |-> 0,
     input |-> <<RawInput(utxo.txid, utxo.vout, P2aMainSequence)>>,
     output |-> tx_outputs_vec(utxo)]

\* the amounts of the outputs (Amount::from_btc(..)?), the reference
\* create_raw_transaction(..)?, then the transaction with the anchor
P2aBuildMain ==
    /\ Running("build1")
    /\ choice = "3"
    /\ LET utxo == unspent[1]
       IN  IF \/ ~from_btc(send_amount(utxo)).ok
              \/ change_amount(utxo).sat > 0 /\ ~from_btc(change_amount(utxo)).ok
           THEN Fail("ParseAmountError") /\ UNCHANGED drafts
           ELSE \E ok \in BOOLEAN :
                  IF ok
                  THEN /\ drafts' = Append(drafts, MainTx(utxo))
                       /\ pc' = "sign1"
                       /\ UNCHANGED <<result, error>>
                  ELSE Fail("RpcError") /\ UNCHANGED drafts
    /\ UNCHANGED <<choice, unspent, signed, broadcast, final_mempool, block,
                   verdict>>

P2aSignMain == choice = "3" /\ Sign("sign1", "main", "send1")

P2aSendMain == choice = "3" /\ Send("send1", "main", "mempool1")

P2aMempool1 == choice = "3" /\ Mempool1("mempool1", "build2")

\* let fee_utxo = &unspent[1.min(unspent.len() - 1)] (indexes from 0)
fee_utxo == unspent[IF Len(unspent) - 1 < 1 THEN Len(unspent) ELSE 2]

\* let fee_change = ((fee_utxo_amount - high_fee) * 1e8).round() / 1e8
fee_change == Round8(F64Sub(to_btc(fee_utxo.amount), F64(high_fee)))

\* a mutant of AnchorVout: the anchor is taken to be the second output
AnchorVout_Second(tx) == 1

\* (tx.output.len() - 1) as u32: the index of the anchor output
AnchorVout(tx) == Len(tx.output) - 1

\* input: vec![anchor_tx_input, fee_tx_input]
AnchorSpendInputs(main_txid, tx) ==
    << RawInput(main_txid, AnchorVout(tx), P2aSpendSequence),
       RawInput(fee_utxo.txid, fee_utxo.vout, P2aSpendSequence) >>

\* a mutant of anchor_tx_outputs_vec: fee_change >= 0.001
anchor_tx_outputs_vec_AtDust ==
    IF fee_change.sat >= dust_floor
    THEN <<[value |-> from_btc(fee_change).sat,
            script |-> script_pubkey("funding_addr")]>>
    ELSE <<>>

\* anchor_tx_outputs_vec: the change, only if fee_change > 0.001
anchor_tx_outputs_vec ==
    IF fee_change.sat > dust_floor
    THEN <<[value |-> from_btc(fee_change).sat,
            script |-> script_pubkey("funding_addr")]>>
    ELSE <<>>

\* let anchor_spend_tx = Transaction { version: Version(3), lock_time: ZERO,
\*     input: vec![anchor_tx_input, fee_tx_input], output: anchor_tx_outputs_vec }
P2aBuildSpend ==
    /\ Running("build2")
    /\ choice = "3"
    /\ LET tx        == Draft("main")
           main_txid == broadcast[1]
       IN  IF fee_change.sat > dust_floor /\ ~from_btc(fee_change).ok
           THEN Fail("ParseAmountError") /\ UNCHANGED drafts
           ELSE /\ drafts' = Append(drafts,
                      [role |-> "anchor_spend", version |-> AnchorTxVersion,
                       lock_time |-> 0,
                       input |-> AnchorSpendInputs(main_txid, tx),
                       output |-> anchor_tx_outputs_vec])
                /\ pc' = "sign2"
                /\ UNCHANGED <<result, error>>
    /\ UNCHANGED <<choice, unspent, signed, broadcast, final_mempool, block,
                   verdict>>

P2aSignSpend == choice = "3" /\ Sign("sign2", "anchor_spend", "send2")

P2aSendSpend == choice = "3" /\ Send("send2", "anchor_spend", "final_mempool")

\* the mempool after the anchor spend: success is printed when it holds both
P2aFinalMempool ==
    /\ Running("final_mempool")
    /\ choice = "3"
    /\ \E ok \in BOOLEAN, m \in SUBSET Range(broadcast) :
         IF ~ok
         THEN Fail("RpcError") /\ UNCHANGED <<final_mempool, verdict>>
         ELSE LET main_txid   == broadcast[1]
                  anchor_txid == broadcast[2]
              IN  /\ final_mempool' = m
                  /\ verdict' = [verdict EXCEPT !.mempool =
                        IF main_txid \in m /\ anchor_txid \in m
                        THEN "P2A SUCCESS"
                        ELSE "nothing printed"]
                  /\ pc' = "mine"
                  /\ UNCHANGED <<result, error>>
    /\ UNCHANGED <<choice, unspent, drafts, signed, broadcast, block>>

\* mine one block and report whether it holds both transactions
P2aMine ==
    /\ Running("mine")
    /\ choice = "3"
    /\ \E ok \in BOOLEAN, b \in SUBSET Range(broadcast) :
         IF ~ok
         THEN /\ \E kind \in {"RpcError", "IoError"} : Fail(kind)
              /\ UNCHANGED <<block, verdict>>
         ELSE LET main_confirmed   == broadcast[1] \in b
                  anchor_confirmed == broadcast[2] \in b
              IN  /\ block' = b
                  /\ verdict' = [verdict EXCEPT !.block =
                        IF main_confirmed /\ anchor_confirmed
                        THEN "SUCCESS"
                        ELSE "nothing printed"]
                  /\ pc' = "done"
                  /\ result' = "Ok"
                  /\ error' = error
    /\ UNCHANGED <<choice, unspent, drafts, signed, broadcast, final_mempool>>

----------------------------------------------------------------------------

Next ==
    \/ Main
    \/ Setup
    \/ RbfListUnspent
    \/ RbfBuildOriginal
    \/ RbfSignOriginal
    \/ RbfSendOriginal
    \/ RbfMempool1
    \/ RbfBuildReplacement
    \/ RbfSignReplacement
    \/ RbfSendReplacement
    \/ RbfFinalMempool
    \/ RbfMine
    \/ CpfpListUnspent
    \/ CpfpBuildParent
    \/ CpfpSignParent
    \/ CpfpSendParent
    \/ CpfpMempool1
    \/ CpfpBuildChild
    \/ CpfpSignChild
    \/ CpfpSendChild
    \/ CpfpFinalMempool
    \/ CpfpMine
    \/ P2aListUnspent
    \/ P2aBuildMain
    \/ P2aSignMain
    \/ P2aSendMain
    \/ P2aMempool1
    \/ P2aBuildSpend
    \/ P2aSignSpend
    \/ P2aSendSpend
    \/ P2aFinalMempool
    \/ P2aMine

Spec == Init /\ [][Next]_vars

----------------------------------------------------------------------------
(* Properties. *)

\* 0xffffffff, and x - n on the low half of a u32 written as <<high, low>>
AllBitsSet == <<65535, 65535>>
U32Minus(x, n) == <<x[1], x[2] - n>>

\* the output the demo selected: the first of list_unspent
Selected == unspent[1]

\* the place an input spends
OutPointOf(in) == <<in.txid, in.vout>>

\* C1: in the replacement demo, every draft built (the original and the
\* replacement) has exactly one input, that input spends the selected output
\* (same txid, same output index), and its sequence is 0xfffffffd.
C1_ReplacementInputs ==
    choice = "1" =>
        \A d \in Range(drafts) :
            /\ Len(d.input) = 1
            /\ OutPointOf(d.input[1]) = <<Selected.txid, Selected.vout>>
            /\ d.input[1].sequence = U32Minus(AllBitsSet, 2)

\* C1 witness: both drafts are built, spending an output whose index is not 0.
C1_Witness ==
    /\ choice = "1"
    /\ Built("original") /\ Built("replacement")
    /\ Selected.vout = 1
    /\ OutPointOf(Draft("original").input[1]) = OutPointOf(Draft("replacement").input[1])

\* C2 as stated: with output.value = 100_000_000 the two drafts pay out
\* 99_990_000 and 99_000_000 (fees 10_000 and 1_000_000).
C2_Original ==
    (choice = "1" /\ Built("original") /\ Built("replacement")
        /\ Selected.amount = 100000000) =>
        /\ Draft("original").output[1].value = 99990000
        /\ Draft("replacement").output[1].value = 99000000

\* C2 amended: each draft has a single output; the original pays
\* output.value - 10_000 and the replacement output.value - 100_000 (the
\* fees of the demo), so that output.value = 100_000_000 gives 99_990_000 and
\* 99_900_000.
C2_ReplacementAmounts ==
    choice = "1" =>
        /\ \A d \in Range(drafts) : Len(d.output) = 1
        /\ Built("original") =>
              Draft("original").output[1].value = Selected.amount - 10000
        /\ Built("replacement") =>
              Draft("replacement").output[1].value = Selected.amount - 100000
        /\ (Built("original") /\ Selected.amount = 100000000) =>
              Draft("original").output[1].value = 99990000
        /\ (Built("replacement") /\ Selected.amount = 100000000) =>
              Draft("replacement").output[1].value = 99900000

\* C2 witness: both drafts are built from an output of 100_000_000.
C2_Witness ==
    /\ choice = "1"
    /\ Built("original") /\ Built("replacement")
    /\ Selected.amount = 100000000

\* C3 as stated: when a fee is at least the value of the selected output, the
\* run fails (with InsufficientFunds).
C3_Original ==
    (choice = "1" /\ pc = "done" /\ unspent # <<>>
        /\ (fee1 >= Selected.amount \/ fee2 >= Selected.amount)) =>
        result = "Err"

\* C3 amended: when a fee is at least the value of the selected output
\* (fee = value included), the run stops at the admission check before any
\* draft is built or broadcast, and returns Ok(()) unless the call that mines
\* more blocks fails: no InsufficientFunds is reported.  No draft with a
\* zero or negative output is ever built or broadcast.
C3_ReplacementBoundary ==
    choice = "1" =>
        /\ (unspent # <<>> /\ (fee1 >= Selected.amount \/ fee2 >= Selected.amount)) =>
              /\ drafts = <<>> /\ broadcast = <<>>
              /\ pc = "done"
              /\ result = "Ok" \/ (result = "Err" /\ error.kind = "RpcError")
        /\ \A d \in Range(drafts) : \A i \in DOMAIN d.output : d.output[i].value > 0

\* C3 witness: the first output is worth exactly the low fee, and the run is
\* over without an error.
C3_Witness ==
    /\ choice = "1" /\ pc = "done" /\ result = "Ok"
    /\ unspent # <<>> /\ Selected.amount = fee1
    /\ drafts = <<>>

\* C4: in the parent/child demo the parent has one input, spending the
\* selected output with sequence 0xffffffff; the child has exactly one
\* input, output 0 of the parent's txid, with sequence 0xfffffffe.
C4_ParentChildStructure ==
    choice = "2" =>
        /\ Built("parent") =>
             LET parent == Draft("parent")
             IN  /\ Len(parent.input) = 1
                 /\ OutPointOf(parent.input[1]) = <<Selected.txid, Selected.vout>>
                 /\ parent.input[1].sequence = AllBitsSet
        /\ Built("child") =>
             LET child == Draft("child")
             IN  /\ Built("parent")
                 /\ Len(child.input) = 1
                 /\ OutPointOf(child.input[1]) = <<Txid(Draft("parent")), 0>>
                 /\ child.input[1].sequence = U32Minus(AllBitsSet, 1)

\* C4 witness: parent and child are built, the parent spending an output
\* whose index is 1.
C4_Witness ==
    /\ choice = "2"
    /\ Built("parent") /\ Built("child")
    /\ Selected.vout = 1

\* C5: the parent pays out output.value - parent_fee and the child
\* output.value - parent_fee - child_fee, never more than the parent's
\* output; output.value = 100_000_000 gives 99_990_000 and 98_990_000.
C5_ParentChildAmounts ==
    choice = "2" =>
        /\ Built("parent") =>
             /\ Len(Draft("parent").output) = 1
             /\ Draft("parent").output[1].value = Selected.amount - 10000
             /\ Selected.amount = 100000000 =>
                   Draft("parent").output[1].value = 99990000
        /\ Built("child") =>
             /\ Len(Draft("child").output) = 1
             /\ Draft("child").output[1].value = Selected.amount - 10000 - 1000000
             /\ Draft("child").output[1].value <= Draft("parent").output[1].value
             /\ Selected.amount = 100000000 =>
                   Draft("child").output[1].value = 98990000

\* C5 witness: parent and child are built from an output of 100_000_000.
C5_Witness ==
    /\ choice = "2"
    /\ Built("parent") /\ Built("child")
    /\ Selected.amount = 100000000

\* the output that pays the fee of the anchor spend: the second of
\* list_unspent, or the first when there is no second
FeeOutput == unspent[IF Len(unspent) = 1 THEN 1 ELSE 2]

\* the last output of a transaction
LastOutput(tx) == tx.output[Len(tx.output)]

\* C6: the last output of the main draft carries the anchor script, and the
\* first input of the spend draft names the main draft's txid and the index
\* (from 0) of that last output, however many outputs the main draft has.
C6_AnchorLinkage ==
    choice = "3" =>
        /\ Built("main") => LastOutput(Draft("main")).script = p2a_script
        /\ Built("anchor_spend") =>
             LET tx    == Draft("main")
                 spend == Draft("anchor_spend")
             IN  /\ Built("main")
                 /\ spend.input[1].txid = Txid(tx)
                 /\ spend.input[1].vout + 1 = Len(tx.output)
                 /\ tx.output[spend.input[1].vout + 1].script = p2a_script

\* C6 witness: main and spend drafts are built, and the anchor is not the
\* second output of the main draft.
C6_Witness ==
    /\ choice = "3"
    /\ Built("main") /\ Built("anchor_spend")
    /\ Len(Draft("main").output) # 2

\* C7: the anchor script is the 4 bytes 0x51 0x02 0x4e 0x73, whatever the
\* inputs of the run, and the anchor output of the main draft carries
\* exactly these bytes.
C7_AnchorScript ==
    /\ p2a_script = <<81, 2, 78, 115>>
    /\ Len(p2a_script) = 4
    /\ (choice = "3" /\ Built("main")) =>
          LastOutput(Draft("main")).script = <<81, 2, 78, 115>>

\* C7 witness: the main draft is built.
C7_Witness ==
    /\ choice = "3"
    /\ Built("main")
    /\ Len(LastOutput(Draft("main")).script) = 4

\* C8 as stated: the main draft has exactly two outputs, the payment of
\* output.value - main_fee - anchor_value and then the anchor.
C8_Original ==
    (choice = "3" /\ Built("main")) =>
        LET tx == Draft("main")
        IN  /\ Len(tx.output) = 2
            /\ tx.output[1].value = Selected.amount - 100000 - 0
            /\ tx.output[2].script = p2a_script

\* C8 amended: the main draft has exactly three outputs: the payment of
\* output.value - main_fee - 100_000 (0.001 BTC kept back), a change output
\* of 100_000 to the wallet, and the anchor output of value 0 last.
C8_MainDraftOutputs ==
    (choice = "3" /\ Built("main")) =>
        LET tx == Draft("main")
        IN  /\ Len(tx.output) = 3
            /\ tx.output[1].value = Selected.amount - 100000 - 100000
            /\ tx.output[1].script = script_pubkey("target_addr")
            /\ tx.output[2].value = 100000
            /\ tx.output[2].script = script_pubkey("funding_addr")
            /\ tx.output[3].value = 0
            /\ tx.output[3].script = p2a_script

\* C8 witness: the main draft is built from an output of 100_000_000.
C8_Witness ==
    /\ choice = "3"
    /\ Built("main")
    /\ Selected.amount = 100000000

\* C9: the spend draft has exactly two inputs, the anchor output first and
\* the fee-paying output second, and at most one output: the change, there
\* iff fee_output.value - spend_fee is above the dust floor (100_000), and
\* then worth fee_output.value - spend_fee.
C9_SpendDraft ==
    (choice = "3" /\ Built("anchor_spend")) =>
        LET tx    == Draft("main")
            spend == Draft("anchor_spend")
        IN  /\ Len(spend.input) = 2
            /\ OutPointOf(spend.input[1]) = <<Txid(tx), Len(tx.output) - 1>>
            /\ OutPointOf(spend.input[2]) = <<FeeOutput.txid, FeeOutput.vout>>
            /\ Len(spend.output) <= 1
            /\ Len(spend.output) = 1 <=> FeeOutput.amount - 1000000 > 100000
            /\ Len(spend.output) = 1 =>
                  spend.output[1].value = FeeOutput.amount - 1000000

\* C9 witness: a spend draft with a change output, paid from the second
\* output of the wallet.
C9_Witness ==
    /\ choice = "3"
    /\ Built("anchor_spend")
    /\ Len(unspent) = 2
    /\ Len(Draft("anchor_spend").output) = 1

\* C9 second case: a spend draft whose change would be exactly the dust
\* floor has no output.
C9_WitnessAtDust ==
    /\ choice = "3"
    /\ Built("anchor_spend")
    /\ FeeOutput.amount - 1000000 = 100000
    /\ Draft("anchor_spend").output = <<>>

\* C10: when main_fee + anchor_value is at least output.value, or spend_fee
\* is at least fee_output.value, the run fails and no draft is built or
\* broadcast; in particular no spend draft without outputs is built.
C10_AnchorSpendInsufficientFunds ==
    choice = "3" =>
        /\ (unspent # <<>>
              /\ (100000 + 0 >= Selected.amount \/ 1000000 >= FeeOutput.amount)) =>
                 drafts = <<>> /\ broadcast = <<>>
        /\ Built("anchor_spend") => Draft("anchor_spend").output # <<>>

\* C11: in every draft of every demo, each output value is at least 0, and
\* an output of value 0 is the anchor output: no payment or change output is
\* built with value 0, whatever output passed the admission check.
C11_OnlyAnchorMayBeZero ==
    \A d \in Range(drafts) : \A i \in DOMAIN d.output :
        /\ d.output[i].value >= 0
        /\ d.output[i].value = 0 => d.output[i].script = p2a_script

\* C17: the fee-paying output spent by the second input of the spend draft
\* is another output than the one the main draft spends, for every
\* non-empty list of outputs, a list of one output included.
C17_DisjointInputs ==
    (choice = "3" /\ Built("main") /\ Built("anchor_spend")) =>
        OutPointOf(Draft("anchor_spend").input[2]) # OutPointOf(Draft("main").input[1])

\* the draft the other one depends on, and the draft that depends on it
Dependency == IF choice = "2" THEN "parent" ELSE "main"
Dependent == IF choice = "2" THEN "child" ELSE "anchor_spend"

\* C12: in the parent/child and anchor demos the dependent draft (child,
\* anchor spend) is built and broadcast only after the dependency (parent,
\* main) was broadcast successfully in this run: the run passes the first
\* broadcast only with its txid, and when that broadcast fails the dependent
\* draft is neither built nor broadcast.
C12_DependencyOrdering ==
    choice \in {"2", "3"} =>
        /\ pc \in {"mempool1", "build2", "sign2", "send2", "final_mempool", "mine"} =>
              Len(broadcast) >= 1
        /\ Built(Dependent) =>
              /\ Built(Dependency)
              /\ Len(broadcast) >= 1
              /\ broadcast[1] = Txid(Draft(Dependency))
        /\ Len(broadcast) = 2 =>
              /\ broadcast[1] = Txid(Draft(Dependency))
              /\ broadcast[2] = Txid(Draft(Dependent))
        /\ (result = "Err" /\ error.at = "send1") =>
              ~Built(Dependent) /\ broadcast = <<>>

\* C12 witness: the anchor spend is broadcast, after the main transaction.
C12_Witness ==
    /\ choice = "3"
    /\ Len(broadcast) = 2
    /\ broadcast[2] = Txid(Draft("anchor_spend"))

\* C12 second case: the broadcast of the parent failed and the run is over.
C12_WitnessFailedParent ==
    /\ choice = "2"
    /\ result = "Err" /\ error.at = "send1"
    /\ Built("parent") /\ "parent" \in signed

\* what the demos print when they report the package as succeeded
Succeeded ==
    \/ verdict.mempool \in {"RBF SUCCESS", "CPFP SUCCESS", "P2A SUCCESS"}
    \/ verdict.block \in {"PERFECT", "SUCCESS"}

\* C13: in every demo, success is reported only when both drafts of the
\* package are built, signed and broadcast: never while a draft is built
\* but not yet broadcast.
C13_SuccessOnlyAfterBroadcast ==
    Succeeded =>
        /\ Len(drafts) = 2
        /\ \A d \in Range(drafts) :
              d.role \in signed /\ Txid(d) \in Range(broadcast)

\* C13 witness: the replacement demo reports success on the mempool.
C13_Witness ==
    /\ choice = "1"
    /\ verdict.mempool = "RBF SUCCESS"
    /\ Len(broadcast) = 2

\* C14: in the parent/child and anchor demos, a block that holds exactly one
\* of the two transactions is reported as a partial confirmation: never as
\* success, never as "neither was mined", never passed over in silence.
C14_PartialConfirmationSurfaced ==
    (choice \in {"2", "3"} /\ verdict.block # "none") =>
        LET dependency_confirmed == Txid(Draft(Dependency)) \in block
            dependent_confirmed  == Txid(Draft(Dependent)) \in block
        IN  dependency_confirmed # dependent_confirmed =>
                verdict.block \notin {"PERFECT", "SUCCESS",
                                      "Neither transaction was mined",
                                      "nothing printed"}

\* C15: in the replacement demo each observation is reported as success
\* exactly when it holds the replacement (the draft with the higher fee) and
\* not the original: "RBF SUCCESS" iff the mempool holds the replacement
\* and not the original, "PERFECT" iff the block does.  An observation that
\* holds the original, both or neither is not reported as success.
C15_ReplacementOutcome ==
    choice = "1" =>
        /\ verdict.mempool # "none" =>
              /\ Draft("original").output[1].value > Draft("replacement").output[1].value
              /\ verdict.mempool = "RBF SUCCESS" <=>
                    /\ Txid(Draft("replacement")) \in final_mempool
                    /\ Txid(Draft("original")) \notin final_mempool
        /\ verdict.block # "none" =>
              verdict.block = "PERFECT" <=>
                    /\ Txid(Draft("replacement")) \in block
                    /\ Txid(Draft("original")) \notin block

\* C15 witness: both transactions are in the mempool after the replacement,
\* and no success is reported.
C15_Witness ==
    /\ choice = "1"
    /\ verdict.mempool = "RBF may not have worked"
    /\ final_mempool = {Txid(Draft("original")), Txid(Draft("replacement"))}

\* C15 second case: the block holds the replacement alone.
C15_WitnessMined ==
    /\ choice = "1"
    /\ verdict.block = "PERFECT"
    /\ block = {Txid(Draft("replacement"))}

\* what a failed run leaves behind, by the step that failed
FailStopState ==
    /\ error.kind # "none" <=> result = "Err"
    /\ result = "Err" =>
          /\ pc = "done"
          /\ error.at \in {"main", "setup", "list_unspent"} =>
                drafts = <<>> /\ broadcast = <<>>
          /\ error.at \in {"build1", "sign1", "send1"} =>
                Len(drafts) <= 1 /\ broadcast = <<>>
          /\ error.at \in {"mempool1", "build2", "sign2", "send2"} =>
                Len(broadcast) = 1
          /\ error.at = "build1" => drafts = <<>>
          /\ error.at \in {"mempool1", "build2"} => Len(drafts) = 1

\* C16: in every demo a failed build, sign or broadcast step ends the run
\* with Err for main's caller; the step that fails changes no draft and no
\* broadcast, and no step follows it: nothing is tried again, no later draft
\* is built or broadcast, what was broadcast stays as it is.
C16_FailStop ==
    /\ []FailStopState
    /\ [][ /\ result = "running"
           /\ result' = "Err" =>
                 /\ drafts' = drafts
                 /\ signed' = signed
                 /\ broadcast' = broadcast
                 /\ error'.at = pc ]_vars

\* C16 witness: the signing of the second draft failed after the first
\* draft was broadcast.
C16_Witness ==
    /\ result = "Err"
    /\ error.at = "sign2"
    /\ Len(broadcast) = 1 /\ Len(drafts) = 2

====
